---- MODULE Spec2Model ----
(***************************************************************************)
(* Worms Armageddon map maker: make_map.py (PNG chunk scan and splice,     *)
(* size rounding, the convert_image pipeline, the command line) and gui.py *)
(* (MapGUI.run_conversion).                                                *)
(*                                                                         *)
(* Bytes are the integers 0..255 and a byte string is a sequence of them.  *)
(* Python offsets are 0-based; Slice translates data[a:b].                 *)
(***************************************************************************)
EXTENDS Integers, Sequences, FiniteSets, TLC

VARIABLES
    mode,        \* which entry point this behaviour exercises
    data,        \* chunk functions: the PNG byte string passed in
    layout,      \* chunk functions: the pieces `data` was assembled from
    chunk,       \* chunk functions: the chunk passed to insert_chunk_before_iend
    result,      \* chunk functions: [op, value] of the last call, or None
    size,        \* ensure_divisible_by_8: the (w, h) passed in
    new_size,    \* ensure_divisible_by_8: the value returned, or None
    fs,          \* the filesystem: path -> file
    call,        \* the arguments of the convert_image call in progress
    pc,          \* the position reached in convert_image
    src,         \* convert_image: the working RGBA image
    quantized,   \* convert_image: the palette image
    transparency_index,  \* convert_image: Optional[int]
    encoded,     \* convert_image: buffer.getvalue(), the encoder's PNG
    png_data,    \* convert_image: the bytes to be written
    exc,         \* the exception raised, "none" when none
    opens,       \* the paths opened by the call so far
    front        \* the front end: command line or GUI state

chunkVars == <<data, layout, chunk, result>>
sizeVars == <<size, new_size>>
convertVars == <<fs, call, pc, src, quantized, transparency_index, encoded, png_data, exc, opens>>
vars == <<mode, chunkVars, sizeVars, convertVars, front>>

\* Optional values: None is the empty tuple and Some(x) the one-element tuple.
None == <<>>
Some(x) == <<x>>
NoResult == [op |-> "none", value |-> None]
NoLayout == [prefix |-> <<>>, pieces |-> <<>>, trunc |-> 0]

\* files, images and calls
NoImage == [size |-> <<0, 0>>, px |-> <<>>, alpha |-> <<>>]
NoPalette == [entries |-> 0, colours |-> 0, idx |-> <<>>]
Absent == [kind |-> "none", img |-> NoImage, bytes |-> <<>>]
ImageFile(img) == [kind |-> "image", img |-> img, bytes |-> <<>>]
BytesFile(b) == [kind |-> "bytes", img |-> NoImage, bytes |-> b]
NoCall ==
    [input_path |-> <<>>, output_path |-> <<>>, template_path |-> None,
     max_colours |-> 0, transparent_colour |-> None, dither |-> FALSE]
NoFront == [kind |-> "none"]

ConvertIdle ==
    /\ fs = <<>>
    /\ call = NoCall
    /\ pc = "idle"
    /\ src = NoImage
    /\ quantized = NoPalette
    /\ transparency_index = None
    /\ encoded = <<>>
    /\ png_data = <<>>
    /\ exc = "none"
    /\ opens = {}
    /\ front = NoFront

Min(a, b) == IF a < b THEN a ELSE b

\* ------------------------------------------------------------------ bounds
MaxChunks == 2      \* chunks per generated byte string
MaxTrunc == 2       \* bytes cut from the end of a generated byte string
MaxDim == 18        \* largest image dimension tried
MaxPixels == 2      \* pixels sampled from an image

\* ------------------------------------------------------------- byte strings
\* Python data[a:b] for 0 <= a, a <= b: clamped to the end of the data.
Slice(s, a, b) == SubSeq(s, a + 1, Min(b, Len(s)))

\* struct.unpack(">I", b)[0] for a 4-byte string b.
unpack_u32(b) == b[1] * 16777216 + b[2] * 65536 + b[3] * 256 + b[4]

\* str.lower() of one latin-1 character, by code point.
lower_char(c) ==
    IF (c >= 65 /\ c <= 90) \/ (c >= 192 /\ c <= 222 /\ c # 215) THEN c + 32 ELSE c

\* str.lower() of a latin-1 decoded byte string.
lower(s) == [i \in 1..Len(s) |-> lower_char(s[i])]

\* ASCII type codes and names.
IEND == <<73, 69, 78, 68>>
IDAT == <<73, 68, 65, 84>>
w2lv == <<119, 50, 108, 118>>
waLV == <<119, 97, 76, 86>>
W2LV == <<87, 50, 76, 86>>
walv == <<119, 97, 108, 118>>

\* The names convert_image passes: ["w2lv", "walv"].
CustomNames == {w2lv, walv}

\* ------------------------------------------------------- find_custom_chunk
\* mutant of type_matches: the comparison without lower-casing the type code
type_matches_case_sensitive(type_code, names) == type_code \in names

\* type_code.lower() in lower_names
type_matches(type_code, names) == lower(type_code) \in {lower(n) : n \in names}

\* mutant of chunk_end_of: the CRC trailer left out of the step
chunk_end_without_crc(offset, length) == offset + 8 + length

\* chunk_end = offset + 8 + length + 4
chunk_end_of(offset, length) == offset + 8 + length + 4

RECURSIVE find_from(_, _, _)
\* the while loop of find_custom_chunk, entered with `offset`
find_from(d, names, offset) ==
    IF offset + 8 <= Len(d)
    THEN LET length == unpack_u32(Slice(d, offset, offset + 4))
             type_code == Slice(d, offset + 4, offset + 8)
             chunk_start == offset
             chunk_end == chunk_end_of(offset, length)
         IN  IF type_matches(type_code, names)
             THEN Some(Slice(d, chunk_start, chunk_end))
             ELSE find_from(d, names, chunk_end)
    ELSE None

find_custom_chunk(d, names) == find_from(d, names, 8)

\* ------------------------------------------------- insert_chunk_before_iend
\* mutant of splice_at: the chunk put after the IEND header instead of before it
splice_after(png, c, offset) == Slice(png, 0, offset + 8) \o c \o Slice(png, offset + 8, Len(png))

\* mutant of splice_at: the bytes from the IEND chunk on are not put back
splice_dropping_tail(png, c, offset) == Slice(png, 0, offset) \o c

\* png_data[:offset] + chunk + png_data[offset:]
splice_at(png, c, offset) == Slice(png, 0, offset) \o c \o Slice(png, offset, Len(png))

\* mutant of append_fallback: the data returned unchanged when no IEND is met
append_nothing(png, c) == png

\* the fallback after the loop: png_data + chunk
append_fallback(png, c) == png \o c

RECURSIVE insert_from(_, _, _)
\* the while loop of insert_chunk_before_iend, entered with `offset`
insert_from(png, c, offset) ==
    IF offset + 8 <= Len(png)
    THEN LET length == unpack_u32(Slice(png, offset, offset + 4))
             type_code == Slice(png, offset + 4, offset + 8)
         IN  IF type_code = IEND
             THEN splice_at(png, c, offset)
             ELSE insert_from(png, c, offset + 8 + length + 4)
    ELSE append_fallback(png, c)

insert_chunk_before_iend(png, c) == insert_from(png, c, 8)

\* ---------------------------------------------------- ensure_divisible_by_8
\* mutant of round_dim: rounds down without the `or 8`
round_dim_no_floor(v) == (v \div 8) * 8

\* (v // 8) * 8 or 8
round_dim(v) == IF (v \div 8) * 8 # 0 THEN (v \div 8) * 8 ELSE 8

ensure_divisible_by_8(sz) == <<round_dim(sz[1]), round_dim(sz[2])>>

\* ===================================================== chunk functions, run
\* Byte strings are assembled from a prefix, up to MaxChunks pieces and a cut of
\* up to MaxTrunc bytes from the end; `layout` remembers the assembly.
Signature == <<137, 80, 78, 71, 13, 10, 26, 10>>
ShortPrefix == <<137, 80, 78>>
Crc == <<1, 2, 3, 4>>

\* struct.pack(">I", n) for n < 256
pack_u32(n) == <<0, 0, 0, n>>

\* a chunk as laid out in a file: length, type, payload, CRC
Chunk(type, payload) == pack_u32(Len(payload)) \o type \o payload \o Crc

\* a chunk-shaped byte range whose length field does not describe its payload
LyingChunk(lenfield, type, payload) == lenfield \o type \o payload \o Crc

Payloads == {<<>>, Chunk(waLV, <<>>), Chunk(IEND, <<>>)}
Types == {IEND, IDAT, w2lv, waLV}

WellFormedPieces ==
    {[bytes |-> Chunk(t, p), type |-> t, ok |-> TRUE] : t \in Types, p \in Payloads}

MalformedPieces ==
    { [bytes |-> LyingChunk(pack_u32(12), IDAT, <<>>), type |-> IDAT, ok |-> FALSE],
      [bytes |-> LyingChunk(pack_u32(0), IDAT, Chunk(w2lv, <<>>)), type |-> IDAT, ok |-> FALSE],
      [bytes |-> LyingChunk(IDAT, IDAT, <<>>), type |-> IDAT, ok |-> FALSE] }

Pieces == WellFormedPieces \cup MalformedPieces

PieceLists == UNION {[1..n -> Pieces] : n \in 0..MaxChunks}

RECURSIVE Concat(_)
Concat(ps) == IF ps = <<>> THEN <<>> ELSE Head(ps).bytes \o Concat(Tail(ps))

Layouts ==
    {[prefix |-> pre, pieces |-> ps, trunc |-> t] :
        pre \in {Signature, ShortPrefix}, ps \in PieceLists, t \in 0..MaxTrunc}

Assemble(l) ==
    LET whole == l.prefix \o Concat(l.pieces)
    IN  SubSeq(whole, 1, IF Len(whole) >= l.trunc THEN Len(whole) - l.trunc ELSE 0)

\* chunks handed to insert_chunk_before_iend
ChunkInputs ==
    {Chunk(w2lv, <<7>>), Chunk(waLV, <<>>), Chunk(waLV, Chunk(IEND, <<>>)),
     Slice(Chunk(w2lv, <<7>>), 0, 9)}

SizeIdle == /\ size = None
            /\ new_size = None

ChunksIdle == /\ data = <<>>
              /\ layout = NoLayout
              /\ chunk = None
              /\ result = NoResult

InitChunks ==
    /\ mode = "chunks"
    /\ layout \in Layouts
    /\ data = Assemble(layout)
    /\ chunk = None
    /\ result = NoResult
    /\ SizeIdle
    /\ ConvertIdle

\* find_custom_chunk(data, ["w2lv", "walv"])
CallFind ==
    /\ mode = "chunks"
    /\ result = NoResult
    /\ result' = [op |-> "find", value |-> find_custom_chunk(data, CustomNames)]
    /\ UNCHANGED <<mode, data, layout, chunk, sizeVars, convertVars, front>>

\* insert_chunk_before_iend(data, c)
CallInsert ==
    /\ mode = "chunks"
    /\ result = NoResult
    /\ \E c \in ChunkInputs :
        /\ chunk' = c
        /\ result' = [op |-> "insert", value |-> Some(insert_chunk_before_iend(data, c))]
    /\ UNCHANGED <<mode, data, layout, sizeVars, convertVars, front>>

\* the two functions composed, as when a written map is searched again:
\* find_custom_chunk(insert_chunk_before_iend(data, c), ["w2lv", "walv"])
CallRoundTrip ==
    /\ mode = "chunks"
    /\ result = NoResult
    /\ \E c \in ChunkInputs :
        /\ chunk' = c
        /\ result' = [op |-> "roundtrip",
                      value |-> find_custom_chunk(insert_chunk_before_iend(data, c), CustomNames)]
    /\ UNCHANGED <<mode, data, layout, sizeVars, convertVars, front>>

NextChunks == CallFind \/ CallInsert \/ CallRoundTrip

SpecChunks == InitChunks /\ [][NextChunks]_vars

\* ============================================= the two scans, step by step
\* One action per loop iteration; `result` holds the running call: which
\* function, where it is, its `offset` and, once returned, its value.
ScanIdle == [op |-> "none", pc |-> "idle", offset |-> 0, value |-> None]

\* mutant of scan_continues: the loop goes on while any byte is left
scan_continues_any_byte(offset, n) == offset < n

\* the loop condition of both scans: offset + 8 <= len(data)
scan_continues(offset, n) == offset + 8 <= n

InitScan ==
    /\ mode = "scan"
    /\ layout \in Layouts
    /\ data = Assemble(layout)
    /\ chunk = None
    /\ result = ScanIdle
    /\ SizeIdle
    /\ ConvertIdle

\* find_custom_chunk entered: offset = 8
FindStart ==
    /\ mode = "scan"
    /\ result.pc = "idle"
    /\ result' = [op |-> "find", pc |-> "loop", offset |-> 8, value |-> None]
    /\ UNCHANGED <<mode, data, layout, chunk, sizeVars, convertVars, front>>

\* one iteration of the loop of find_custom_chunk; struct.unpack raises
\* struct.error when its slice is not 4 bytes long
FindIterate ==
    /\ mode = "scan"
    /\ result.op = "find" /\ result.pc = "loop"
    /\ scan_continues(result.offset, Len(data))
    /\ LET offset == result.offset
           header == Slice(data, offset, offset + 4)
           type_code == Slice(data, offset + 4, offset + 8)
       IN  IF Len(header) # 4
           THEN result' = [result EXCEPT !.pc = "raised"]
           ELSE LET length == unpack_u32(header)
                    chunk_start == offset
                    chunk_end == chunk_end_of(offset, length)
                IN  IF type_matches(type_code, CustomNames)
                    THEN result' = [result EXCEPT !.pc = "returned",
                                        !.value = Some(Slice(data, chunk_start, chunk_end))]
                    ELSE result' = [result EXCEPT !.offset = chunk_end]
    /\ UNCHANGED <<mode, data, layout, chunk, sizeVars, convertVars, front>>

\* the loop of find_custom_chunk left: return None
FindExit ==
    /\ mode = "scan"
    /\ result.op = "find" /\ result.pc = "loop"
    /\ ~scan_continues(result.offset, Len(data))
    /\ result' = [result EXCEPT !.pc = "returned", !.value = None]
    /\ UNCHANGED <<mode, data, layout, chunk, sizeVars, convertVars, front>>

\* insert_chunk_before_iend entered: offset = 8
InsertStart ==
    /\ mode = "scan"
    /\ result.pc = "idle"
    /\ \E c \in ChunkInputs : chunk' = c
    /\ result' = [op |-> "insert", pc |-> "loop", offset |-> 8, value |-> None]
    /\ UNCHANGED <<mode, data, layout, sizeVars, convertVars, front>>

\* one iteration of the loop of insert_chunk_before_iend
InsertIterate ==
    /\ mode = "scan"
    /\ result.op = "insert" /\ result.pc = "loop"
    /\ scan_continues(result.offset, Len(data))
    /\ LET offset == result.offset
           header == Slice(data, offset, offset + 4)
           type_code == Slice(data, offset + 4, offset + 8)
       IN  IF Len(header) # 4
           THEN result' = [result EXCEPT !.pc = "raised"]
           ELSE LET length == unpack_u32(header)
                IN  IF type_code = IEND
                    THEN result' = [result EXCEPT !.pc = "returned",
                                        !.value = Some(splice_at(data, chunk, offset))]
                    ELSE result' = [result EXCEPT !.offset = offset + 8 + length + 4]
    /\ UNCHANGED <<mode, data, layout, chunk, sizeVars, convertVars, front>>

\* the loop of insert_chunk_before_iend left: the fallback
InsertExit ==
    /\ mode = "scan"
    /\ result.op = "insert" /\ result.pc = "loop"
    /\ ~scan_continues(result.offset, Len(data))
    /\ result' = [result EXCEPT !.pc = "returned", !.value = Some(append_fallback(data, chunk))]
    /\ UNCHANGED <<mode, data, layout, chunk, sizeVars, convertVars, front>>

NextScan ==
    FindStart \/ FindIterate \/ FindExit \/ InsertStart \/ InsertIterate \/ InsertExit

SpecScan == InitScan /\ [][NextScan]_vars

\* the calls run to completion: a step that can be taken is taken
SpecScanFair == SpecScan /\ WF_vars(NextScan)

\* ================================================ ensure_divisible_by_8, run
InitSize ==
    /\ mode = "size"
    /\ size \in (1..MaxDim) \X (1..MaxDim)
    /\ new_size = None
    /\ ChunksIdle
    /\ ConvertIdle

CallEnsure ==
    /\ mode = "size"
    /\ new_size = None
    /\ new_size' = ensure_divisible_by_8(size)
    /\ UNCHANGED <<mode, chunkVars, size, convertVars, front>>

NextSize == CallEnsure

SpecSize == InitSize /\ [][NextSize]_vars

\* ============================================================ convert_image
\* Paths are character strings.
InPath == <<"i">>
TplPath == <<"t">>
OutPath == <<"o">>
GonePath == <<"g">>          \* names no file
NoTplPath == <<"m">>         \* names no file
NoDirPath == <<"n", "/", "o">>   \* lies in a directory that does not exist

\* os.path.isfile(p)
isfile(files, p) == p \in DOMAIN files /\ files[p].kind # "none"

\* open(p, "wb") succeeds
creatable(p) == p # NoDirPath /\ p # <<>>

\* mutant of max_colours_invalid: the lower limit off by one
max_colours_invalid_low(max_colours) == max_colours < 0 \/ max_colours > 112

\* max_colours < 1 or max_colours > 112
max_colours_invalid(max_colours) == max_colours < 1 \/ max_colours > 112

\* src.resize(new_size, Image.NEAREST): every pixel of the result is a pixel of
\* the source; the sampled pixels px stand for the image before and after.
resize(img, sz) == [img EXCEPT !.size = sz]

\* the alpha layer of lines 166-180: 0 where all three channels equal the
\* components of transparent_colour, 255 elsewhere.  A component that is not an
\* int (the command line hands over tuples) equals no channel value.
alpha_mask(img, colour) ==
    [i \in 1..Len(img.px) |->
        IF colour.ints /\ img.px[i] = colour.v THEN 0 ELSE 255]

\* Steps of convert_image --------------------------------------------------
\* lines 152-153
Validate ==
    /\ pc = "validate"
    /\ IF max_colours_invalid(call.max_colours)
       THEN /\ exc' = "ValueError"
            /\ pc' = "raised"
       ELSE /\ exc' = exc
            /\ pc' = "load"
    /\ UNCHANGED <<mode, chunkVars, sizeVars, fs, call, src, quantized,
                   transparency_index, encoded, png_data, opens, front>>

\* lines 156-161: Image.open(input_path).convert("RGBA"), then the resize
Load ==
    /\ pc = "load"
    /\ opens' = opens \cup {call.input_path}
    /\ IF ~isfile(fs, call.input_path)
       THEN /\ exc' = "FileNotFoundError"
            /\ pc' = "raised"
            /\ src' = src
       ELSE IF fs[call.input_path].kind # "image"
       THEN /\ exc' = "UnidentifiedImageError"
            /\ pc' = "raised"
            /\ src' = src
       ELSE LET img == fs[call.input_path].img
                sz == ensure_divisible_by_8(img.size)
            IN  /\ src' = IF sz # img.size THEN resize(img, sz) ELSE img
                /\ exc' = exc
                /\ pc' = "mask"
    /\ UNCHANGED <<mode, chunkVars, sizeVars, fs, call, quantized,
                   transparency_index, encoded, png_data, front>>

\* lines 166-180
Mask ==
    /\ pc = "mask"
    /\ src' = IF call.transparent_colour # None
              THEN [src EXCEPT !.alpha = alpha_mask(src, call.transparent_colour[1])]
              ELSE src
    /\ pc' = "quantize"
    /\ UNCHANGED <<mode, chunkVars, sizeVars, fs, call, quantized,
                   transparency_index, encoded, png_data, exc, opens, front>>

\* What src.convert("RGB").quantize(colors, MEDIANCUT, dither) may return: the
\* alpha band is dropped by convert("RGB"), so the result depends on the RGB
\* samples alone.  The indices used are 0..u-1 for some u <= colors; without
\* dithering equal colours get equal indices.  The palette holds the u colours
\* used or all `colors` entries asked for (Pillow trims the palette of a
\* quantised image to at most `colors` entries).  `colours` keeps the number of
\* entries the quantiser produced.
quantize_results(img, colors, dither) ==
    LET n == Len(img.px)
        top == Min(colors, n)
    IN  { q \in { [entries |-> e, colours |-> e, idx |-> ix] :
                    e \in 1..colors, ix \in [1..n -> 0..(top - 1)] } :
            /\ \A i \in 1..n : q.idx[i] < q.entries
            /\ \A i \in 1..n : \A k \in 0..q.idx[i] : \E j \in 1..n : q.idx[j] = k
            /\ q.entries = colors \/ \E i \in 1..n : q.idx[i] = q.entries - 1
            /\ ~dither => \A i, j \in 1..n : img.px[i] = img.px[j] => q.idx[i] = q.idx[j] }

\* lines 184-186
Quantize ==
    /\ pc = "quantize"
    /\ quantized' \in quantize_results(src, call.max_colours, call.dither)
    /\ pc' = "palette"
    /\ UNCHANGED <<mode, chunkVars, sizeVars, fs, call, src,
                   transparency_index, encoded, png_data, exc, opens, front>>

\* mutant of palette_has_room: the extra entry is never appended
palette_never_has_room(entries) == FALSE

\* len(palette) // 3 < 256, for a palette of `entries` colours
palette_has_room(entries) == (3 * entries) \div 3 < 256

\* lines 192-203
Palette ==
    /\ pc = "palette"
    /\ IF call.transparent_colour = None
       THEN /\ transparency_index' = None
            /\ UNCHANGED <<quantized, exc>>
            /\ pc' = "save"
       ELSE IF palette_has_room(quantized.entries)
       THEN IF call.transparent_colour[1].ints
            THEN \* palette += list(transparent_colour); putpalette(palette)
                 /\ quantized' = [quantized EXCEPT !.entries = @ + 1]
                 /\ transparency_index' = Some(((3 * quantized.entries + 3) \div 3) - 1)
                 /\ exc' = exc
                 /\ pc' = "save"
            ELSE \* putpalette(list holding tuples): bytes(data) raises
                 /\ exc' = "TypeError"
                 /\ pc' = "raised"
                 /\ UNCHANGED <<quantized, transparency_index>>
       ELSE /\ transparency_index' = Some(0)
            /\ UNCHANGED <<quantized, exc>>
            /\ pc' = "save"
    /\ UNCHANGED <<mode, chunkVars, sizeVars, fs, call, src, encoded, png_data,
                   opens, front>>

\* What quantized.save(buffer, format="PNG", **save_kwargs) may write: the
\* signature, IHDR, PLTE, tRNS when a transparency index is passed, IDAT and a
\* closing IEND; compressed IDAT data may hold any bytes.
IHDR == <<73, 72, 68, 82>>
PLTE == <<80, 76, 84, 69>>
tRNS == <<116, 82, 78, 83>>
encoder_outputs(with_trns) ==
    { Signature \o Chunk(IHDR, <<8>>) \o Chunk(PLTE, <<>>)
        \o (IF with_trns THEN Chunk(tRNS, <<0>>) ELSE <<>>)
        \o Chunk(IDAT, body) \o Chunk(IEND, <<>>) :
        body \in {<<>>, Chunk(IEND, <<>>)} }

\* lines 206-211
Save ==
    /\ pc = "save"
    /\ \E png \in encoder_outputs(transparency_index # None) :
          /\ encoded' = png
          /\ png_data' = png
    /\ pc' = "template"
    /\ UNCHANGED <<mode, chunkVars, sizeVars, fs, call, src, quantized,
                   transparency_index, exc, opens, front>>

\* mutant of template_usable: the template is opened without the isfile test
template_usable_unchecked(files, template_path) == template_path # None

\* template_path is not None and os.path.isfile(template_path)
template_usable(files, template_path) ==
    template_path # None /\ isfile(files, template_path[1])

\* lines 214-219
CopyTemplate ==
    /\ pc = "template"
    /\ IF template_usable(fs, call.template_path)
       THEN /\ opens' = opens \cup {call.template_path[1]}
            /\ IF ~isfile(fs, call.template_path[1])
               THEN /\ exc' = "FileNotFoundError"
                    /\ pc' = "raised"
                    /\ png_data' = png_data
               ELSE LET template_bytes == fs[call.template_path[1]].bytes
                        custom_chunk == find_custom_chunk(template_bytes, CustomNames)
                    IN  /\ png_data' =
                              IF custom_chunk # None /\ custom_chunk[1] # <<>>
                              THEN insert_chunk_before_iend(png_data, custom_chunk[1])
                              ELSE png_data
                        /\ exc' = exc
                        /\ pc' = "write"
       ELSE /\ pc' = "write"
            /\ UNCHANGED <<opens, exc, png_data>>
    /\ UNCHANGED <<mode, chunkVars, sizeVars, fs, call, src, quantized,
                   transparency_index, encoded, front>>

\* lines 222-224
Write ==
    /\ pc = "write"
    /\ opens' = opens \cup {call.output_path}
    /\ IF creatable(call.output_path)
       THEN /\ fs' = [p \in DOMAIN fs \cup {call.output_path} |->
                        IF p = call.output_path THEN BytesFile(png_data) ELSE fs[p]]
            /\ exc' = exc
            /\ pc' = "returned"
       ELSE /\ exc' = "FileNotFoundError"
            /\ pc' = "raised"
            /\ fs' = fs
    /\ UNCHANGED <<mode, chunkVars, sizeVars, call, src, quantized,
                   transparency_index, encoded, png_data, front>>

ConvertSteps == Validate \/ Load \/ Mask \/ Quantize \/ Palette \/ Save \/ CopyTemplate \/ Write

\* ------------------------------------------------ convert_image called directly
Colours == {<<0, 0, 0>>, <<0, 0, 1>>}
Images ==
    {[size |-> sz, px |-> px, alpha |-> [i \in 1..MaxPixels |-> 255]] :
        sz \in {<<8, 16>>, <<9, 7>>}, px \in [1..MaxPixels -> Colours]}

\* template files: assembled like the byte strings of the chunk functions
Piece(type, payload) == [bytes |-> Chunk(type, payload), type |-> type, ok |-> TRUE]
TemplateLayouts ==
    { [prefix |-> Signature, pieces |-> <<Piece(IDAT, <<>>), Piece(IEND, <<>>)>>, trunc |-> 0],
      [prefix |-> Signature, pieces |-> <<Piece(w2lv, <<>>), Piece(IEND, <<>>)>>, trunc |-> 0],
      [prefix |-> Signature,
       pieces |-> <<Piece(IDAT, Chunk(w2lv, <<>>)), Piece(waLV, Chunk(IEND, <<>>)), Piece(w2lv, <<>>)>>,
       trunc |-> 0],
      [prefix |-> Signature, pieces |-> <<Piece(IDAT, Chunk(w2lv, <<>>)), Piece(IEND, <<>>)>>, trunc |-> 0],
      [prefix |-> Signature, pieces |-> <<Piece(IDAT, <<>>), Piece(W2LV, <<7>>), Piece(IEND, <<>>)>>, trunc |-> 0],
      [prefix |-> Signature, pieces |-> <<Piece(IDAT, <<>>), Piece(w2lv, Chunk(IEND, <<>>))>>, trunc |-> MaxTrunc],
      [prefix |-> ShortPrefix, pieces |-> <<>>, trunc |-> 0] }
Templates == {Assemble(l) : l \in TemplateLayouts}

IntColour(c) == [ints |-> TRUE, v |-> c]

ConvertArgs ==
    [input_path : {InPath}, output_path : {OutPath},
     template_path : {None, Some(TplPath), Some(NoTplPath)},
     max_colours : {0, 1, 2, 112, 113},
     transparent_colour : {None, Some(IntColour(<<0, 0, 0>>))},
     dither : BOOLEAN]

Files(inputs, templates) ==
    {[p \in {InPath, TplPath} |-> IF p = InPath THEN i ELSE t] :
        i \in inputs, t \in templates}

InitConvert ==
    /\ mode = "convert"
    /\ ChunksIdle
    /\ SizeIdle
    /\ fs \in Files({ImageFile(img) : img \in Images}, {BytesFile(t) : t \in Templates})
    /\ call = NoCall
    /\ pc = "idle"
    /\ src = NoImage
    /\ quantized = NoPalette
    /\ transparency_index = None
    /\ encoded = <<>>
    /\ png_data = <<>>
    /\ exc = "none"
    /\ opens = {}
    /\ front = NoFront

\* convert_image(input_path, output_path, template_path=..., ...)
CallConvert ==
    /\ mode = "convert"
    /\ pc = "idle"
    /\ call' \in ConvertArgs
    /\ pc' = "validate"
    /\ UNCHANGED <<mode, chunkVars, sizeVars, fs, src, quantized,
                   transparency_index, encoded, png_data, exc, opens, front>>

NextConvert == CallConvert \/ ConvertSteps

SpecConvert == InitConvert /\ [][NextConvert]_vars

\* ================================================== strings typed by the user
\* Strings are sequences of characters.  The characters used here are the
\* digits, the blank, the signs and letters.
Digits == {"0", "1", "2", "3", "4", "5", "6", "7", "8", "9"}
digit_value(c) ==
    CASE c = "0" -> 0 [] c = "1" -> 1 [] c = "2" -> 2 [] c = "3" -> 3 [] c = "4" -> 4
      [] c = "5" -> 5 [] c = "6" -> 6 [] c = "7" -> 7 [] c = "8" -> 8 [] c = "9" -> 9

RECURSIVE lstrip(_)
lstrip(s) == IF s # <<>> /\ Head(s) = " " THEN lstrip(Tail(s)) ELSE s
RECURSIVE rstrip(_)
rstrip(s) == IF s # <<>> /\ s[Len(s)] = " " THEN rstrip(SubSeq(s, 1, Len(s) - 1)) ELSE s
\* str.strip()
strip(s) == rstrip(lstrip(s))

RECURSIVE digits_value(_)
digits_value(s) ==
    IF s = <<>> THEN 0 ELSE 10 * digits_value(SubSeq(s, 1, Len(s) - 1)) + digit_value(s[Len(s)])

\* int(s): blanks around, an optional sign, then decimal digits; anything else
\* raises ValueError (ok = FALSE)
py_int(s) ==
    LET t == strip(s)
        signed == t # <<>> /\ t[1] \in {"+", "-"}
        body == IF signed THEN Tail(t) ELSE t
    IN  IF body # <<>> /\ \A i \in 1..Len(body) : body[i] \in Digits
        THEN [ok |-> TRUE,
              value |-> IF signed /\ t[1] = "-" THEN 0 - digits_value(body) ELSE digits_value(body)]
        ELSE [ok |-> FALSE, value |-> 0]

\* =============================================================== command line
\* parse_colour(values): argparse hands it ONE command-line string; iterating
\* it yields its characters, each turned into an int, and exactly three are
\* required.  ok = FALSE stands for ArgumentTypeError.
parse_colour(values) ==
    IF /\ \A i \in 1..Len(values) : py_int(<<values[i]>>).ok
       /\ Len(values) = 3
       /\ \A i \in 1..Len(values) :
              ~(py_int(<<values[i]>>).value < 0 \/ py_int(<<values[i]>>).value > 255)
    THEN [ok |-> TRUE, ints |-> FALSE, value |-> [i \in 1..3 |-> py_int(<<values[i]>>).value]]
    ELSE [ok |-> FALSE, ints |-> FALSE, value |-> <<>>]

\* args.transparent_colour: the default (0, 0, 0), or with nargs=3 the list of
\* the three values type= returned, one per argument
cli_colour(option) ==
    IF option = None
    THEN IntColour(<<0, 0, 0>>)
    ELSE [ints |-> \A i \in 1..3 : parse_colour(option[1][i]).ints,
          v |-> [i \in 1..3 |-> parse_colour(option[1][i]).value]]

\* the command lines tried
ColourTokens == {<<"0">>, <<"2", "5", "5">>, <<"-", "1">>}
SampleImage ==
    [size |-> <<9, 7>>,
     px |-> [i \in 1..MaxPixels |-> IF i = 1 THEN <<0, 0, 0>> ELSE <<0, 0, 1>>],
     alpha |-> [i \in 1..MaxPixels |-> 255]]
SampleTemplate == Signature \o Chunk(w2lv, <<7>>) \o Chunk(IEND, <<>>)
Garbage == <<71, 73, 70>>

CommandLines ==
    [input : {InPath, GonePath}, output : {OutPath, NoDirPath},
     template : {None, Some(TplPath), Some(NoTplPath)},
     maxcolours : {None, Some(<<"0">>), Some(<<"2">>), Some(<<"x">>)},
     colour : {None} \cup {Some(<<r, g, b>>) : r \in ColourTokens, g \in ColourTokens, b \in ColourTokens},
     no_transparency : BOOLEAN, dither : BOOLEAN]

InitCli ==
    /\ mode = "cli"
    /\ ChunksIdle
    /\ SizeIdle
    /\ fs \in Files({ImageFile(SampleImage), BytesFile(Garbage)}, {BytesFile(SampleTemplate)})
    /\ call = NoCall
    /\ pc = "idle"
    /\ src = NoImage
    /\ quantized = NoPalette
    /\ transparency_index = None
    /\ encoded = <<>>
    /\ png_data = <<>>
    /\ exc = "none"
    /\ opens = {}
    /\ \E argv \in CommandLines : front = [kind |-> "cli", argv |-> argv, status |-> "start"]

\* main(), lines 239-318, up to the call of convert_image: parse_args exits
\* with status 2 on a value its type= rejects.
Main ==
    /\ mode = "cli"
    /\ front.status = "start"
    /\ LET argv == front.argv
           maxcolours == IF argv.maxcolours = None THEN [ok |-> TRUE, value |-> 112]
                         ELSE py_int(argv.maxcolours[1])
           colour_ok == argv.colour = None \/ \A i \in 1..3 : parse_colour(argv.colour[1][i]).ok
       IN  IF ~maxcolours.ok \/ ~colour_ok
           THEN /\ front' = [front EXCEPT !.status = "exit2"]
                /\ UNCHANGED <<call, pc>>
           ELSE /\ front' = [front EXCEPT !.status = "converting"]
                /\ call' = [input_path |-> argv.input, output_path |-> argv.output,
                            template_path |-> argv.template,
                            max_colours |-> maxcolours.value,
                            transparent_colour |->
                                IF argv.no_transparency THEN None
                                ELSE Some(cli_colour(argv.colour)),
                            dither |-> argv.dither]
                /\ pc' = "validate"
    /\ UNCHANGED <<mode, chunkVars, sizeVars, fs, src, quantized,
                   transparency_index, encoded, png_data, exc, opens>>

\* main() after convert_image: it returns, or the exception leaves main uncaught
MainEnd ==
    /\ mode = "cli"
    /\ front.status = "converting"
    /\ pc \in {"returned", "raised"}
    /\ front' = [front EXCEPT !.status = IF pc = "returned" THEN "exit0" ELSE "traceback"]
    /\ UNCHANGED <<mode, chunkVars, sizeVars, convertVars>>

NextCli == Main \/ ConvertSteps \/ MainEnd

SpecCli == InitCli /\ [][NextCli]_vars

\* ======================================================================= GUI
SavedDir == <<"s">>

RECURSIVE last_slash(_)
\* index of the last "/" of s, 0 when there is none
last_slash(s) ==
    IF s = <<>> THEN 0
    ELSE IF s[Len(s)] = "/" THEN Len(s) ELSE last_slash(SubSeq(s, 1, Len(s) - 1))
RECURSIVE last_dot(_)
last_dot(s) ==
    IF s = <<>> THEN 0
    ELSE IF s[Len(s)] = "." THEN Len(s) ELSE last_dot(SubSeq(s, 1, Len(s) - 1))
\* Path(p).stem: the final component without its last suffix
stem(p) ==
    LET name == SubSeq(p, last_slash(p) + 1, Len(p))
        dot == last_dot(name)
    IN  IF dot > 1 /\ dot < Len(name) THEN SubSeq(name, 1, dot - 1) ELSE name

\* str(self.savedlevels_dir / f"{Path(input_path).stem}_wa.png")
saved_output(dir, input_path) ==
    dir \o <<"/">> \o stem(input_path) \o <<"_", "w", "a", ".", "p", "n", "g">>

\* mutant of gui_max_invalid: the lower limit off by one
gui_max_invalid_low(max_cols) == max_cols < 0 \/ max_cols > 112

\* max_cols < 1 or max_cols > 112
gui_max_invalid(max_cols) == max_cols < 1 \/ max_cols > 112

\* MapGUI._parse_colour, lines 276-288: the value returned and the dialog shown
parse_colour_fields(f) ==
    LET r == py_int(f.transparent_r)
        g == py_int(f.transparent_g)
        b == py_int(f.transparent_b)
    IN  IF f.no_transparency THEN [value |-> None, dialogs |-> <<>>]
        ELSE IF ~(r.ok /\ g.ok /\ b.ok)
        THEN [value |-> None, dialogs |-> <<"Invalid colour">>]
        ELSE IF \E v \in {r.value, g.value, b.value} : v < 0 \/ v > 255
        THEN [value |-> None, dialogs |-> <<"Invalid colour">>]
        ELSE [value |-> Some(IntColour(<<r.value, g.value, b.value>>)), dialogs |-> <<>>]

\* what the user may have typed and ticked when Convert is clicked
GuiInputs ==
    [input_path : {<<>>, <<" ">>, InPath, GonePath},
     output_path : {<<>>, OutPath, NoDirPath},
     template_path : {<<>>, TplPath, NoTplPath},
     max_colours : {<<"1", "1", "2">>, <<"0">>, <<"1", "1", "3">>, <<"x">>, <<" ", "2">>},
     transparent_r : {<<"0">>, <<"2", "5", "5">>, <<"2", "5", "6">>, <<"-", "1">>, <<"x">>},
     transparent_g : {<<"0">>, <<"2", "5", "6">>},
     transparent_b : {<<"0">>, <<"x">>},
     no_transparency : BOOLEAN, dither : BOOLEAN]

\* MapGUI.__init__, lines 164-174
GuiDefaults ==
    [input_path |-> <<>>, output_path |-> <<>>, template_path |-> <<>>,
     max_colours |-> <<"1", "1", "2">>,
     transparent_r |-> <<"0">>, transparent_g |-> <<"0">>, transparent_b |-> <<"0">>,
     no_transparency |-> FALSE, dither |-> FALSE]

InitGui ==
    /\ mode = "gui"
    /\ ChunksIdle
    /\ SizeIdle
    /\ fs \in Files({ImageFile(SampleImage), BytesFile(Garbage)}, {BytesFile(SampleTemplate)})
    /\ call = NoCall
    /\ pc = "idle"
    /\ src = NoImage
    /\ quantized = NoPalette
    /\ transparency_index = None
    /\ encoded = <<>>
    /\ png_data = <<>>
    /\ exc = "none"
    /\ opens = {}
    /\ \E dir \in {None, Some(SavedDir)} :
          front = [kind |-> "gui", fields |-> GuiDefaults, savedlevels_dir |-> dir,
                   dialogs |-> <<>>, state |-> "built", calls |-> 0]

\* the user fills in the entries and check boxes built in _build_ui
EditFields ==
    /\ mode = "gui"
    /\ front.state = "built"
    /\ \E f \in GuiInputs : front' = [front EXCEPT !.fields = f, !.state = "ready"]
    /\ UNCHANGED <<mode, chunkVars, sizeVars, convertVars>>

\* MapGUI.run_conversion, lines 290-326: the checks, then the call
RunConversion ==
    /\ mode = "gui"
    /\ front.state \in {"built", "ready"}
    /\ LET f == front.fields
           input_path == strip(f.input_path)
           typed_output == strip(f.output_path)
           template_path == IF strip(f.template_path) # <<>> THEN Some(strip(f.template_path)) ELSE None
           output_path == IF typed_output = <<>> /\ front.savedlevels_dir # None
                          THEN saved_output(front.savedlevels_dir[1], input_path)
                          ELSE typed_output
           shown == [f EXCEPT !.output_path =
                        IF typed_output = <<>> /\ front.savedlevels_dir # None
                        THEN output_path ELSE f.output_path]
           max_cols == py_int(f.max_colours)
           colour == parse_colour_fields(f)
       IN  IF input_path = <<>>
           THEN /\ front' = [front EXCEPT !.dialogs = Append(@, "Missing input"), !.state = "done"]
                /\ UNCHANGED <<call, pc>>
           ELSE IF output_path = <<>>
           THEN /\ front' = [front EXCEPT !.dialogs = Append(@, "Missing output"), !.state = "done"]
                /\ UNCHANGED <<call, pc>>
           ELSE IF ~max_cols.ok \/ gui_max_invalid(max_cols.value)
           THEN /\ front' = [front EXCEPT !.fields = shown,
                                          !.dialogs = Append(@, "Invalid max colours"),
                                          !.state = "done"]
                /\ UNCHANGED <<call, pc>>
           ELSE IF colour.value = None /\ ~f.no_transparency
           THEN /\ front' = [front EXCEPT !.fields = shown,
                                          !.dialogs = @ \o colour.dialogs,
                                          !.state = "done"]
                /\ UNCHANGED <<call, pc>>
           ELSE /\ front' = [front EXCEPT !.fields = shown, !.state = "converting",
                                          !.calls = @ + 1]
                /\ call' = [input_path |-> input_path, output_path |-> output_path,
                            template_path |-> template_path,
                            max_colours |-> max_cols.value,
                            transparent_colour |-> colour.value,
                            dither |-> f.dither]
                /\ pc' = "validate"
    /\ UNCHANGED <<mode, chunkVars, sizeVars, fs, src, quantized,
                   transparency_index, encoded, png_data, exc, opens>>

\* lines 327-331: the except clause, or the Success box
AfterConvert ==
    /\ mode = "gui"
    /\ front.state = "converting"
    /\ pc \in {"returned", "raised"}
    /\ front' = [front EXCEPT !.dialogs = Append(@, IF pc = "raised" THEN "Conversion failed"
                                                    ELSE "Success"),
                              !.state = "done"]
    /\ UNCHANGED <<mode, chunkVars, sizeVars, convertVars>>

NextGui == EditFields \/ RunConversion \/ ConvertSteps \/ AfterConvert

SpecGui == InitGui /\ [][NextGui]_vars

\* ================================================================== claims
\* the chunk sequence: offsets of the chunk headers met walking from offset `o`
RECURSIVE WalkOffsets(_, _)
WalkOffsets(d, o) ==
    IF o + 8 <= Len(d)
    THEN {o} \cup WalkOffsets(d, o + 12 + (d[o+1] * 16777216 + d[o+2] * 65536 + d[o+3] * 256 + d[o+4]))
    ELSE {}

DeclaredLength(d, o) == d[o+1] * 16777216 + d[o+2] * 65536 + d[o+3] * 256 + d[o+4]
TypeAt(d, o) == <<d[o+5], d[o+6], d[o+7], d[o+8]>>

\* two bytes are the same ASCII letter in either case, or the same byte
SameLetter(a, b) ==
    \/ a = b
    \/ a >= 65 /\ a <= 90 /\ b = a + 32
    \/ b >= 65 /\ b <= 90 /\ a = b + 32

EqIgnoreCase(s, t) == Len(s) = Len(t) /\ \A i \in 1..Len(s) : SameLetter(s[i], t[i])

IsCustomType(t) == EqIgnoreCase(t, w2lv) \/ EqIgnoreCase(t, waLV)

\* the bytes of the chunk at offset o, as far as the data holds them
RawChunkAt(d, o) ==
    [i \in 1..Min(12 + DeclaredLength(d, o), Len(d) - o) |-> d[o + i]]

SetMin(S) == CHOOSE x \in S : \A y \in S : x <= y

WellFormedLayout(l) ==
    /\ l.prefix = Signature
    /\ l.trunc = 0
    /\ \A i \in 1..Len(l.pieces) : l.pieces[i].ok

\* C8: find_custom_chunk returns the raw bytes of the first chunk of the walk
\* from offset 8 whose type equals a name ignoring case, None when the walk
\* meets none; name bytes inside a payload are no match.
C8_FindFirstMatch ==
    (mode = "chunks" /\ result.op = "find") =>
        LET hits == {o \in WalkOffsets(data, 8) : IsCustomType(TypeAt(data, o))}
            custom == {i \in 1..Len(layout.pieces) : IsCustomType(layout.pieces[i].type)}
        IN  /\ result.value = IF hits = {} THEN None ELSE Some(RawChunkAt(data, SetMin(hits)))
            /\ WellFormedLayout(layout) =>
                  result.value = IF custom = {} THEN None
                                 ELSE Some(layout.pieces[SetMin(custom)].bytes)

\* a well-formed file whose first chunk hides name bytes in its payload and whose
\* second chunk is the custom one, searched
C8_Witness ==
    /\ mode = "chunks" /\ result.op = "find"
    /\ WellFormedLayout(layout)
    /\ Len(layout.pieces) = 2
    /\ layout.pieces[1].bytes = Chunk(IDAT, Chunk(waLV, <<>>))
    /\ layout.pieces[2].type = waLV
    /\ result.value = Some(layout.pieces[2].bytes)

C9_WitnessInsert ==
    /\ mode = "chunks" /\ result.op = "insert"
    /\ \E o \in WalkOffsets(data, 8) : TypeAt(data, o) = IEND /\ o > 8 /\ o + 12 < Len(data)

\* C3: for w, h >= 1 each returned dimension is the largest multiple of 8 not
\* above the input dimension, or 8 when that multiple is 0; it is a positive
\* multiple of 8, and the size comes back unchanged exactly when both inputs
\* are multiples of 8.
C3_RoundDown ==
    (mode = "size" /\ new_size # None) =>
        /\ \A k \in 1..2 :
            /\ new_size[k] % 8 = 0
            /\ new_size[k] > 0
            /\ size[k] >= 8 => (new_size[k] <= size[k] /\ size[k] < new_size[k] + 8)
            /\ size[k] < 8 => new_size[k] = 8
        /\ (new_size = size) <=> (size[1] % 8 = 0 /\ size[2] % 8 = 0)

\* one dimension below 8 is raised to 8 while the other is rounded down
C3_Witness ==
    /\ mode = "size" /\ new_size # None
    /\ size[1] < 8 /\ size[2] > 16 /\ size[2] % 8 # 0
    /\ new_size = <<8, 16>>

\* the custom chunk the template's chunk sequence holds first, if any
CustomOffsets(d) == {o \in WalkOffsets(d, 8) : IsCustomType(TypeAt(d, o))}
Saved == pc \in {"template", "write", "returned"}

\* C1: when the template file holds a chunk of type w2lv/waLV (type codes
\* compared ignoring case, the first such chunk of the chunk sequence), the file
\* written is the encoder's PNG with that chunk's exact bytes immediately before
\* its IEND chunk; when the template holds none, the file written is the
\* encoder's PNG byte for byte.
C1_TemplateChunkBeforeIEND ==
    (pc = "returned" /\ call.template_path # None /\ isfile(fs, call.template_path[1])) =>
        LET tb == fs[call.template_path[1]].bytes
            out == fs[call.output_path].bytes
            hits == CustomOffsets(tb)
            k == Len(encoded) - 12
        IN  IF hits = {}
            THEN out = encoded
            ELSE /\ SubSeq(encoded, k + 1, Len(encoded)) = Chunk(IEND, <<>>)
                 /\ out = SubSeq(encoded, 1, k) \o RawChunkAt(tb, SetMin(hits)) \o Chunk(IEND, <<>>)

\* a template with two custom chunks behind a payload that hides a name, and an
\* encoder PNG whose IDAT data holds the bytes of an IEND chunk
C1_Witness ==
    /\ pc = "returned"
    /\ call.template_path = Some(TplPath)
    /\ Cardinality(CustomOffsets(fs[TplPath].bytes)) = 2
    /\ Len(encoded) > 80
    /\ fs[OutPath].bytes # encoded
    /\ Len(fs[OutPath].bytes) = Len(encoded) + 24

\* C2: a call with max_colours outside 1..112 raises ValueError before any
\* file is opened; no output file is created.
C2_RangeCheckedFirst ==
    (pc \notin {"idle", "validate"} /\ (call.max_colours < 1 \/ call.max_colours > 112)) =>
        /\ pc = "raised"
        /\ exc = "ValueError"
        /\ opens = {}
        /\ ~isfile(fs, call.output_path)

C2_Witness ==
    /\ pc = "raised" /\ exc = "ValueError" /\ opens = {}
    /\ call.max_colours = 0
    /\ call.template_path = Some(TplPath)

\* C4: in the output every pixel whose RGB value equals transparent_colour has
\* the palette index passed as the transparency index, and every other pixel an
\* index that is not the transparency index.
C4_MatchingPixelsTransparent ==
    (pc = "returned" /\ call.transparent_colour # None /\ call.transparent_colour[1].ints) =>
        \A i \in 1..Len(src.px) :
            (src.px[i] = call.transparent_colour[1].v)
                <=> (transparency_index # None /\ quantized.idx[i] = transparency_index[1])

DigitChars == <<"0", "1", "2", "3", "4", "5", "6", "7", "8", "9">>
RECURSIVE Numeral(_)
Numeral(n) == IF n < 10 THEN <<DigitChars[n + 1]>> ELSE Numeral(n \div 10) \o <<DigitChars[(n % 10) + 1]>>
IsNumeralIn(s, lo, hi) == \E n \in lo..hi : s = Numeral(n)
NumeralValue(s, lo, hi) == CHOOSE n \in lo..hi : s = Numeral(n)

CliDone == mode = "cli" /\ front.status \in {"exit0", "exit2", "traceback"}
ListedFailure ==
    \/ call.max_colours < 1 \/ call.max_colours > 112
    \/ ~isfile(fs, call.input_path)
    \/ fs[call.input_path].kind # "image"
    \/ ~creatable(call.output_path)
TupleColour == call.transparent_colour # None /\ ~call.transparent_colour[1].ints
MissingTemplate == call.template_path # None /\ ~isfile(fs, call.template_path[1])

C7_ColourOptionAccepted ==
    ( /\ mode = "cli" /\ front.status # "start"
      /\ front.argv.colour # None
      /\ ~front.argv.no_transparency
      /\ front.argv.maxcolours = None
      /\ \A i \in 1..3 : IsNumeralIn(front.argv.colour[1][i], 0, 255) ) =>
        /\ front.status # "exit2"
        /\ call.transparent_colour # None
        /\ call.transparent_colour[1].ints
        /\ call.transparent_colour[1].v =
              [i \in 1..3 |-> NumeralValue(front.argv.colour[1][i], 0, 255)]

\* what the user typed, read as the claim reads it
Blank(s) == \A i \in 1..Len(s) : s[i] = " "
SetMax(S) == CHOOSE x \in S : \A y \in S : x >= y
Trimmed(s) ==
    LET inked == {i \in 1..Len(s) : s[i] # " "}
    IN  IF inked = {} THEN <<>> ELSE SubSeq(s, SetMin(inked), SetMax(inked))
Signed(S) == S \cup {<<"+">> \o t : t \in S}
MaxColourNumerals == Signed({Numeral(n) : n \in 1..112})
ChannelNumerals == Signed({Numeral(n) : n \in 0..255})
GuiInvalid ==
    LET f == front.fields
    IN  \/ Blank(f.input_path)
        \/ Blank(f.output_path) /\ front.savedlevels_dir = None
        \/ Trimmed(f.max_colours) \notin MaxColourNumerals
        \/ /\ ~f.no_transparency
           /\ \E s \in {f.transparent_r, f.transparent_g, f.transparent_b} :
                 Trimmed(s) \notin ChannelNumerals
ErrorTitles == {"Missing input", "Missing output", "Invalid max colours", "Invalid colour"}

\* C10: run_conversion calls convert_image only when every check passes: an
\* empty input path, an empty output path with no SavedLevels folder, a max
\* colours field that is no integer in 1..112 or, with transparency enabled, a
\* colour field that is no integer in 0..255 shows one error dialog and returns
\* without the call; an exception of convert_image shows 'Conversion failed', and
\* 'Success' is shown only when convert_image returned.
C10_GuiValidatesThenReports ==
    (mode = "gui" /\ front.state \notin {"built", "ready"}) =>
        /\ GuiInvalid <=> front.calls = 0
        /\ GuiInvalid =>
              /\ front.state = "done" /\ pc = "idle"
              /\ Len(front.dialogs) = 1 /\ front.dialogs[1] \in ErrorTitles
              /\ opens = {}
        /\ (front.state = "done" /\ pc = "raised") => front.dialogs = <<"Conversion failed">>
        /\ (front.state = "done" /\ pc = "returned") => front.dialogs = <<"Success">>
        /\ (\E i \in 1..Len(front.dialogs) : front.dialogs[i] = "Success") =>
              (pc = "returned" /\ exc = "none" /\ isfile(fs, call.output_path))

\* a colour field out of range stops the click before convert_image
C10_Witness ==
    /\ mode = "gui" /\ front.state = "done"
    /\ front.fields.transparent_r = <<"2", "5", "6">>
    /\ front.fields.max_colours = <<" ", "2">>
    /\ front.dialogs = <<"Invalid colour">>
    /\ front.calls = 0

C10_WitnessFailed ==
    /\ mode = "gui" /\ front.state = "done"
    /\ front.dialogs = <<"Conversion failed">>
    /\ exc = "UnidentifiedImageError"

\* the IEND chunks the walk from offset 8 meets
IendOffsets(d) == {o \in WalkOffsets(d, 8) : TypeAt(d, o) = IEND}

\* C11: when the walk of the data meets no IEND chunk, insert_chunk_before_iend
\* returns the data unchanged, as its documentation says.
C11_NoIendReturnsUnchanged ==
    (mode = "chunks" /\ result.op = "insert" /\ IendOffsets(data) = {}) =>
        result.value = Some(data)

C14_WitnessShort ==
    /\ mode = "chunks" /\ result.op = "insert"
    /\ Len(data) < 8
    /\ result.value = Some(data \o chunk)

\* the offset at which the walk from offset `o` stops
RECURSIVE WalkEnd(_, _)
WalkEnd(d, o) == IF o + 8 <= Len(d) THEN WalkEnd(d, o + 12 + DeclaredLength(d, o)) ELSE o

\* the walk reaches an IEND chunk, or the exact end of the data, before any
\* chunk of a custom type
CustomFreeWalk(d) ==
    IF IendOffsets(d) # {}
    THEN \A o \in CustomOffsets(d) : o > SetMin(IendOffsets(d))
    ELSE CustomOffsets(d) = {} /\ WalkEnd(d, 8) = Len(d)

\* a whole chunk of a custom type: 12 bytes around a payload of the declared length
WellFormedCustomChunk(c) ==
    /\ Len(c) >= 12
    /\ Len(c) = 12 + DeclaredLength(c, 0)
    /\ TypeAt(c, 0) \in {w2lv, waLV}

C12_WitnessAppend ==
    /\ mode = "chunks" /\ result.op = "roundtrip"
    /\ IendOffsets(data) = {} /\ CustomFreeWalk(data) /\ Len(data) > 8
    /\ WellFormedCustomChunk(chunk)
    /\ result.value = Some(chunk)

\* a scan is in its loop / has returned
Scanning == mode = "scan" /\ result.pc = "loop"
Scanned == mode = "scan" /\ result.pc = "returned"

\* the step-by-step scans return what the functions computed whole return
ScanAgrees ==
    Scanned =>
        result.value = IF result.op = "find"
                       THEN find_custom_chunk(data, CustomNames)
                       ELSE Some(insert_chunk_before_iend(data, chunk))

\* C13: both scans terminate on every byte string: no read raises, the offset
\* grows by at least 12 on every iteration that stays in the loop, the loop is
\* left on the step after offset + 8 exceeds the length of the data, and every
\* call returns.
C13_ScansTerminate ==
    /\ [](mode = "scan" => result.pc # "raised")
    /\ [][(Scanning /\ result'.pc = "loop") => result'.offset >= result.offset + 12]_vars
    /\ [][(Scanning /\ result.offset + 8 > Len(data)) => result'.pc = "returned"]_vars
    /\ [][(Scanning /\ result'.pc = "returned" /\ result'.value = None)
            => result.offset + 8 > Len(data)]_vars
    /\ <>Scanned

\* a scan that returned after stepping over at least two chunks, the last of
\* which declares more bytes than the data holds
C13_Witness ==
    /\ Scanned
    /\ result.offset > Len(data)
    /\ \E o \in WalkOffsets(data, 8) : o > 8 /\ o < result.offset /\ o + 12 > Len(data)

\* a scan of data shorter than the signature, and one over a chunk of declared
\* length 0
C13_WitnessShort ==
    /\ Scanned
    /\ Len(data) < 8
    /\ result.offset = 8

C13_WitnessEmptyChunk ==
    /\ Scanning
    /\ result.offset = 20
    /\ DeclaredLength(data, 8) = 0

====
